---- MODULE Spec2Model ----
(***************************************************************************)
(* Model of log_analyzer.py: locating the latest nginx access log,         *)
(* streaming and parsing its lines under an error-rate gate, aggregating   *)
(* per-endpoint statistics and writing the report.                         *)
(*                                                                         *)
(* Abstractions:                                                           *)
(*  - a file name is a record (prefix, digit string, suffix); the regular  *)
(*    expression of find_latest_log is evaluated on that structure;        *)
(*  - a log line is a sequence of tokens (path / decimal number / other);  *)
(*    the two regular expressions of process_log are evaluated on it;      *)
(*  - a duration is an integer number of hundredths of a second, and the   *)
(*    quotients process_raw computes are exact rationals <<num, den>>      *)
(*    (Python computes them in binary floating point);                     *)
(*  - MAX_ERRORS_PERCENT is an integer, so the comparison of line 144 is   *)
(*    decided exactly by cross-multiplication.                             *)
(***************************************************************************)
EXTENDS Integers, Sequences, FiniteSets, TLC

VARIABLES
    pc,            \* position of the run inside main / __main__
    run,           \* number of the current invocation of the program
    log_dir,       \* os.listdir(LOG_DIR): the file names, in listing order
    reports,       \* REPORT_DIR: report file name -> content
    config,        \* the merged configuration of this run
    latest_log,    \* <<>> (None) or <<LogFileEntry>>
    handle,        \* file object of log_reader: "unopened", "open", "closed"
    closes,        \* number of times log.close() ran in this run
    line,          \* the line of the last loop iteration of process_log
    lines_count,
    lines_parsed,
    raw_data,      \* ordered mapping url -> samples: Seq([url, times])
    returned_none, \* process_log returned None
    clean_data,    \* result of process_raw
    called,        \* the pipeline stages this run has called
    raised,        \* exception that left main(): "None" when there is none
    exit_status    \* exit status of the process, once pc = "exited"

vars == <<pc, run, log_dir, reports, config, latest_log, handle, closes, line,
          lines_count, lines_parsed, raw_data, returned_none, clean_data,
          called, raised, exit_status>>

(***************************************************************************)
(* Bounds                                                                  *)
(***************************************************************************)
MaxFiles == 2
MaxLines == 3
MaxRuns == 2

(***************************************************************************)
(* Program constants                                                       *)
(***************************************************************************)
REPORT_SIZE == 1000

(***************************************************************************)
(* Generic helpers                                                         *)
(***************************************************************************)
Range(s) == {s[i] : i \in 1..Len(s)}

RECURSIVE SumSeq(_)
SumSeq(s) == IF s = <<>> THEN 0 ELSE Head(s) + SumSeq(Tail(s))

MaxSeq(s) == CHOOSE x \in Range(s) : \A y \in Range(s) : y <= x

Take(s, n) == SubSeq(s, 1, IF n < Len(s) THEN n ELSE Len(s))

\* list.sort(): insertion of x after every element <= x (stable, ascending)
RECURSIVE InsertAsc(_, _)
InsertAsc(x, s) ==
    IF s = <<>> THEN <<x>>
    ELSE IF Head(s) <= x THEN <<Head(s)>> \o InsertAsc(x, Tail(s))
    ELSE <<x>> \o s

RECURSIVE SortedAsc(_)
SortedAsc(s) ==
    IF s = <<>> THEN <<>>
    ELSE InsertAsc(s[Len(s)], SortedAsc(SubSeq(s, 1, Len(s) - 1)))

(***************************************************************************)
(* find_latest_log                                                         *)
(***************************************************************************)
PREFIX == "nginx-access-ui.log-"

FileName(pre, digits, suf) == [pre |-> pre, digits |-> digits, suf |-> suf]

\* re.compile(r'^nginx-access-ui\.log-(\d{8})(\.gz)?$').search(file)
pattern(file) ==
    /\ file.pre = PREFIX
    /\ Len(file.digits) = 8
    /\ file.suf \in {"", ".gz"}

IsLeap(y) == (y % 4 = 0 /\ y % 100 # 0) \/ y % 400 = 0

DaysInMonth(y, m) ==
    IF m \in {4, 6, 9, 11} THEN 30
    ELSE IF m = 2 THEN (IF IsLeap(y) THEN 29 ELSE 28)
    ELSE 31

\* datetime.datetime.strptime(token, '%Y%m%d').date(): the date <<Y, m, d>>,
\* or ValueError when the eight digits are no calendar date.
strptime(d) ==
    LET Y == d[1] * 1000 + d[2] * 100 + d[3] * 10 + d[4]
        m == d[5] * 10 + d[6]
        dd == d[7] * 10 + d[8]
    IN  IF Y >= 1 /\ m \in 1..12 /\ dd >= 1 /\ dd <= DaysInMonth(Y, m)
        THEN [ok |-> TRUE, date |-> <<Y, m, dd>>]
        ELSE [ok |-> FALSE, date |-> <<0, 0, 0>>]

\* date.__gt__
DateGt(a, b) ==
    \/ a[1] > b[1]
    \/ a[1] = b[1] /\ a[2] > b[2]
    \/ a[1] = b[1] /\ a[2] = b[2] /\ a[3] > b[3]

\* datetime.datetime.min.date()
DateMin == <<1, 1, 1>>

LogFileEntry(file, f_ext, f_date) ==
    [path |-> <<"LOG_DIR", file>>, name |-> file, ext |-> f_ext, date |-> f_date]

\* The for loop of find_latest_log from position i on, with the loop's
\* variables min_date and found_log.  exc = "ValueError" when strptime raises.
RECURSIVE FindLoop(_, _, _, _)
FindLoop(files, i, min_date, found_log) ==
    IF i > Len(files) THEN [exc |-> "None", found |-> found_log]
    ELSE LET file == files[i] IN
         IF ~pattern(file) THEN FindLoop(files, i + 1, min_date, found_log)
         ELSE LET p == strptime(file.digits) IN
              IF ~p.ok THEN [exc |-> "ValueError", found |-> <<>>]
              ELSE IF DateGt(p.date, min_date)
                   THEN FindLoop(files, i + 1, p.date,
                                 <<LogFileEntry(file, file.suf, p.date)>>)
                   ELSE FindLoop(files, i + 1, min_date, found_log)

find_latest_log(files) == FindLoop(files, 1, DateMin, <<>>)

(***************************************************************************)
(* The file names of the model                                             *)
(***************************************************************************)
D20211205 == <<2, 0, 2, 1, 1, 2, 0, 5>>
D20211207 == <<2, 0, 2, 1, 1, 2, 0, 7>>
D00010101 == <<0, 0, 0, 1, 0, 1, 0, 1>>
D20211301 == <<2, 0, 2, 1, 1, 3, 0, 1>>
D2021120 == <<2, 0, 2, 1, 1, 2, 0>>

FileNames ==
    { FileName(PREFIX, D20211205, ".gz"),
      FileName(PREFIX, D20211207, ""),
      FileName(PREFIX, D20211207, ".gz"),
      FileName(PREFIX, D20211207, ".bz2"),
      FileName(PREFIX, D00010101, ""),
      FileName(PREFIX, D20211301, ""),
      FileName(PREFIX, D2021120, ""),
      FileName("access.log-", D20211207, "") }

IsListing(s) == \A i, j \in 1..Len(s) : i # j => s[i] # s[j]

\* every directory of at most MaxFiles files, in every listing order
Listings ==
    UNION { {s \in [1..n -> FileNames] : IsListing(s)} : n \in 0..MaxFiles }

\* the directories the pipeline is run against
MainListings ==
    { <<>>,
      <<FileName(PREFIX, D20211205, ".gz"), FileName(PREFIX, D20211207, ""),
        FileName(PREFIX, D20211207, ".bz2")>>,
      <<FileName(PREFIX, D20211205, ".gz"), FileName(PREFIX, D20211301, "")>>,
      <<FileName(PREFIX, D00010101, "")>> }

(***************************************************************************)
(* is_report_exsist / report file names                                    *)
(***************************************************************************)
\* 'report-{}.html'.format(date.strftime('%Y.%m.%d')) inside report_dir
ReportName(date) ==
    [dir |-> "REPORT_DIR", stem |-> "report-", Y |-> date[1], m |-> date[2],
     d |-> date[3], ext |-> ".html"]

\* a check that formats the date as day.month.year
is_report_exsist_other_format(report_dir, lastdate) ==
    ReportName(<<lastdate[3], lastdate[2], lastdate[1]>>) \in DOMAIN report_dir

is_report_exsist(report_dir, lastdate) ==
    ReportName(lastdate) \in DOMAIN report_dir

(***************************************************************************)
(* Log lines and the extraction of process_log                             *)
(***************************************************************************)
PathTok(u) == [k |-> "path", url |-> u, num |-> 0]
NumTok(n) == [k |-> "num", url |-> "", num |-> n]
WordTok == [k |-> "word", url |-> "", num |-> 0]

Urls == {"/a", "/b", "/c"}
Durations == {0, 1}

Lines ==
    { <<WordTok, PathTok(u), NumTok(t)>> : u \in Urls, t \in Durations }
    \cup { <<WordTok, PathTok("/a"), WordTok>>,   \* no trailing duration
           <<WordTok, NumTok(1)>> }               \* no path

RECURSIVE findall_url(_)
\* re.findall(url_regexp, line): every path token, left to right
findall_url(l) ==
    IF l = <<>> THEN <<>>
    ELSE (IF Head(l).k = "path" THEN <<Head(l).url>> ELSE <<>>)
         \o findall_url(Tail(l))

\* re.findall(time_regexp, line): the decimal number that ends the line
findall_time(l) ==
    IF l # <<>> /\ l[Len(l)].k = "num" THEN <<l[Len(l)].num>> ELSE <<>>

\* url = findall[0] if findall else None; likewise time.  None is <<>>.
ExtractUrl(l) == IF findall_url(l) # <<>> THEN <<findall_url(l)[1]>> ELSE <<>>
ExtractTime(l) == IF findall_time(l) # <<>> THEN <<findall_time(l)[1]>> ELSE <<>>

\* if(time and url): both are None or non-empty strings
IsParsed(l) == ExtractTime(l) # <<>> /\ ExtractUrl(l) # <<>>

HasKey(rd, url) == \E i \in 1..Len(rd) : rd[i].url = url

\* raw_data[url] = [t]: an assignment in place of the append
AppendSampleOverwrite(rd, url, t) ==
    IF HasKey(rd, url)
    THEN [i \in 1..Len(rd) |->
            IF rd[i].url = url THEN [url |-> url, times |-> <<t>>] ELSE rd[i]]
    ELSE Append(rd, [url |-> url, times |-> <<t>>])

\* raw_data[url].append(t) on a defaultdict(list), which keeps insertion order
AppendSample(rd, url, t) ==
    IF HasKey(rd, url)
    THEN [i \in 1..Len(rd) |->
            IF rd[i].url = url
            THEN [url |-> url, times |-> Append(rd[i].times, t)]
            ELSE rd[i]]
    ELSE Append(rd, [url |-> url, times |-> <<t>>])

\* errors_percent > max_errors_percent, with
\* errors_percent = 100 - 100*lines_parsed/lines_count and lines_count > 0
ErrorsExceeded(parsed, count, max_errors_percent) ==
    100 * (count - parsed) > max_errors_percent * count

(***************************************************************************)
(* process_raw                                                             *)
(***************************************************************************)
RECURSIVE SumTimes(_)
SumTimes(rd) ==
    IF rd = <<>> THEN 0 ELSE SumSeq(Head(rd).times) + SumTimes(Tail(rd))

RECURSIVE SumLens(_)
SumLens(rd) ==
    IF rd = <<>> THEN 0 ELSE Len(Head(rd).times) + SumLens(Tail(rd))

\* statistics.median, as a rational
median(times) ==
    LET s == SortedAsc(times)
        n == Len(s)
    IN  IF n % 2 = 1 THEN <<s[(n + 1) \div 2], 1>>
        ELSE <<s[n \div 2] + s[n \div 2 + 1], 2>>

StatRow(e, sum_lines, sum_time) ==
    [url |-> e.url,
     count |-> Len(e.times),
     count_perc |-> <<100 * Len(e.times), sum_lines>>,
     time_avg |-> <<SumSeq(e.times), Len(e.times)>>,
     time_max |-> MaxSeq(e.times),
     time_med |-> median(e.times),
     time_perc |-> <<100 * SumSeq(e.times), sum_time>>,
     time_sum |-> SumSeq(e.times)]

\* The rows in the order of the mapping.  100*sum(times)/sum_time is a float
\* division: it raises ZeroDivisionError for the first row when sum_time is 0.
process_raw(rd) ==
    LET sum_time == SumTimes(rd)
        sum_lines == SumLens(rd)
    IN  IF rd # <<>> /\ sum_time = 0
        THEN [exc |-> "ZeroDivisionError", rows |-> <<>>]
        ELSE [exc |-> "None",
              rows |-> [i \in 1..Len(rd) |-> StatRow(rd[i], sum_lines, sum_time)]]

(***************************************************************************)
(* create_report                                                           *)
(***************************************************************************)
\* a descending sort that is not stable: x goes before the rows equal to it
RECURSIVE InsertByTimeSumUnstable(_, _)
InsertByTimeSumUnstable(x, s) ==
    IF s = <<>> THEN <<x>>
    ELSE IF Head(s).time_sum > x.time_sum
         THEN <<Head(s)>> \o InsertByTimeSumUnstable(x, Tail(s))
         ELSE <<x>> \o s

\* position of x in a list already sorted by time_sum descending: after every
\* row whose time_sum is >= that of x
RECURSIVE InsertByTimeSum(_, _)
InsertByTimeSum(x, s) ==
    IF s = <<>> THEN <<x>>
    ELSE IF Head(s).time_sum >= x.time_sum
         THEN <<Head(s)>> \o InsertByTimeSum(x, Tail(s))
         ELSE <<x>> \o s

RECURSIVE SortedByTimeSum(_)
\* sorted(clean_data, key=lambda k: k['time_sum'], reverse=True)
SortedByTimeSum(rows) ==
    IF rows = <<>> THEN <<>>
    ELSE InsertByTimeSum(rows[Len(rows)],
                         SortedByTimeSum(SubSeq(rows, 1, Len(rows) - 1)))

\* the table written into the report: sorted(...)[:report_size]
ReportData(rows, report_size) == Take(SortedByTimeSum(rows), report_size)

(***************************************************************************)
(* __main__                                                                *)
(***************************************************************************)
\* the exceptions `except Exception` catches; SystemExit is not one of them
Exceptions == {"ValueError", "ZeroDivisionError", "OSError"}

\* Exit status of the interpreter: sys.exit(0) leaves with 0; an Exception is
\* caught and logged and the script runs to its end; so does a main() that
\* returns.
ExitStatus(r) ==
    IF r = "SystemExit" THEN 0
    ELSE IF r \in Exceptions THEN 0
    ELSE 0

(***************************************************************************)
(* State machine                                                           *)
(***************************************************************************)
Thresholds == {0, 50, 100}
ReportSizes == {0, 1, 2, REPORT_SIZE}
Configs == [MAX_ERRORS_PERCENT : Thresholds, REPORT_SIZE : ReportSizes]

NoReports == [n \in {} |-> <<>>]
OldReport(date) == [n \in {ReportName(date)} |-> <<>>]
InitReports == {NoReports, OldReport(<<2021, 12, 5>>), OldReport(<<2021, 12, 7>>)}

RunInit ==
    /\ pc = "config"
    /\ config = [MAX_ERRORS_PERCENT |-> 0, REPORT_SIZE |-> REPORT_SIZE]
    /\ latest_log = <<>>
    /\ handle = "unopened"
    /\ closes = 0
    /\ line = <<>>
    /\ lines_count = 0
    /\ lines_parsed = 0
    /\ raw_data = <<>>
    /\ returned_none = FALSE
    /\ clean_data = <<>>
    /\ called = {}
    /\ raised = "None"
    /\ exit_status = <<>>

Init ==
    /\ run = 1
    /\ log_dir \in MainListings
    /\ reports \in InitReports
    /\ RunInit

\* main() leaves by raising e: control reaches the try block of __main__
Leave(e) ==
    /\ raised' = e
    /\ pc' = "handler"

\* main, lines 203-214
LoadConfig ==
    /\ pc = "config"
    /\ config' \in Configs
    /\ pc' = "find"
    /\ UNCHANGED <<run, log_dir, reports, latest_log, handle, closes, line,
                   lines_count, lines_parsed, raw_data, returned_none,
                   clean_data, called, raised, exit_status>>

\* process_config raises FileNotFoundError / IOError
LoadConfigFails ==
    /\ pc = "config"
    /\ Leave("OSError")
    /\ UNCHANGED <<run, log_dir, reports, config, latest_log, handle, closes,
                   line, lines_count, lines_parsed, raw_data, returned_none,
                   clean_data, called, exit_status>>

\* main, lines 216-219
FindLatestLog ==
    /\ pc = "find"
    /\ LET r == find_latest_log(log_dir) IN
       IF r.exc # "None"
       THEN Leave(r.exc) /\ UNCHANGED latest_log
       ELSE IF r.found = <<>>
            THEN Leave("SystemExit") /\ UNCHANGED latest_log
            ELSE latest_log' = r.found /\ pc' = "check" /\ UNCHANGED raised
    /\ called' = called \cup {"find_latest_log"}
    /\ UNCHANGED <<run, log_dir, reports, config, handle, closes, line,
                   lines_count, lines_parsed, raw_data, returned_none,
                   clean_data, exit_status>>

\* main, lines 220-225: the check, and the call of process_log
IsReportExist ==
    /\ pc = "check"
    /\ IF is_report_exsist(reports, latest_log[1].date)
       THEN Leave("SystemExit") /\ UNCHANGED called
       ELSE pc' = "open" /\ called' = called \cup {"process_log"}
            /\ UNCHANGED raised
    /\ UNCHANGED <<run, log_dir, reports, config, latest_log, handle, closes,
                   line, lines_count, lines_parsed, raw_data, returned_none,
                   clean_data, exit_status>>

\* log_reader, lines 94-95, run by the first next() of the for loop
LogReaderOpen ==
    /\ pc = "open"
    /\ handle' = "open"
    /\ pc' = "read"
    /\ UNCHANGED <<run, log_dir, reports, config, latest_log, closes, line,
                   lines_count, lines_parsed, raw_data, returned_none,
                   clean_data, called, raised, exit_status>>

\* open / gzip.open raises: no file object exists
LogReaderOpenFails ==
    /\ pc = "open"
    /\ Leave("OSError")
    /\ UNCHANGED <<run, log_dir, reports, config, latest_log, handle, closes,
                   line, lines_count, lines_parsed, raw_data, returned_none,
                   clean_data, called, exit_status>>

\* one iteration of the loop of process_log: log_reader yields a line
\* (lines 96-98) and the body runs on it (lines 125-133)
ReadLine ==
    /\ pc = "read"
    /\ lines_count < MaxLines
    /\ \E l \in Lines :
        /\ line' = l
        /\ IF IsParsed(l)
           THEN /\ lines_parsed' = lines_parsed + 1
                /\ raw_data' = AppendSample(raw_data, ExtractUrl(l)[1],
                                            ExtractTime(l)[1])
           ELSE UNCHANGED <<lines_parsed, raw_data>>
    /\ lines_count' = lines_count + 1
    /\ UNCHANGED <<pc, run, log_dir, reports, config, latest_log, handle,
                   closes, returned_none, clean_data, called, raised,
                   exit_status>>

\* the read behind `for line in log` raises (undecodable bytes, a truncated
\* gzip stream, an I/O error): the exception leaves log_reader at line 96,
\* then process_log and main; line 99 does not run
ReadRaises ==
    /\ pc = "read"
    /\ Leave("OSError")
    /\ UNCHANGED <<run, log_dir, reports, config, latest_log, handle, closes,
                   line, lines_count, lines_parsed, raw_data, returned_none,
                   clean_data, called, exit_status>>

\* the file is exhausted: log_reader runs log.close() (line 99) and ends
ReadEOF ==
    /\ pc = "read"
    /\ handle' = "closed"
    /\ closes' = closes + 1
    /\ pc' = "gate"
    /\ UNCHANGED <<run, log_dir, reports, config, latest_log, line,
                   lines_count, lines_parsed, raw_data, returned_none,
                   clean_data, called, raised, exit_status>>

\* process_log, lines 135-152, and main, lines 226-227
ProcessLogReturn ==
    /\ pc = "gate"
    /\ IF lines_count = 0
       THEN Leave("ZeroDivisionError") /\ UNCHANGED returned_none
       ELSE IF ErrorsExceeded(lines_parsed, lines_count,
                              config.MAX_ERRORS_PERCENT)
            THEN returned_none' = TRUE /\ Leave("SystemExit")
            ELSE IF raw_data = <<>>
                 THEN Leave("SystemExit") /\ UNCHANGED returned_none
                 ELSE pc' = "aggregate" /\ UNCHANGED <<raised, returned_none>>
    /\ UNCHANGED <<run, log_dir, reports, config, latest_log, handle, closes,
                   line, lines_count, lines_parsed, raw_data, clean_data,
                   called, exit_status>>

\* main, line 228
ProcessRaw ==
    /\ pc = "aggregate"
    /\ called' = called \cup {"process_raw"}
    /\ LET r == process_raw(raw_data) IN
       IF r.exc # "None"
       THEN Leave(r.exc) /\ UNCHANGED clean_data
       ELSE clean_data' = r.rows /\ pc' = "report" /\ UNCHANGED raised
    /\ UNCHANGED <<run, log_dir, reports, config, latest_log, handle, closes,
                   line, lines_count, lines_parsed, raw_data, returned_none,
                   exit_status>>

\* main, lines 229-232: create_report writes the file and main returns
CreateReport ==
    /\ pc = "report"
    /\ called' = called \cup {"create_report"}
    /\ LET name == ReportName(latest_log[1].date)
           data == ReportData(clean_data, config.REPORT_SIZE)
       IN  reports' = [n \in DOMAIN reports \cup {name} |->
                          IF n = name THEN data ELSE reports[n]]
    /\ pc' = "handler"
    /\ UNCHANGED <<run, log_dir, config, latest_log, handle, closes, line,
                   lines_count, lines_parsed, raw_data, returned_none,
                   clean_data, raised, exit_status>>

\* the template cannot be read (line 192): nothing is written
CreateReportFails ==
    /\ pc = "report"
    /\ called' = called \cup {"create_report"}
    /\ Leave("OSError")
    /\ UNCHANGED <<run, log_dir, reports, config, latest_log, handle, closes,
                   line, lines_count, lines_parsed, raw_data, returned_none,
                   clean_data, exit_status>>

\* __main__, lines 235-239, and the end of the process
TopLevel ==
    /\ pc = "handler"
    /\ exit_status' = <<ExitStatus(raised)>>
    /\ pc' = "exited"
    /\ UNCHANGED <<run, log_dir, reports, config, latest_log, handle, closes,
                   line, lines_count, lines_parsed, raw_data, returned_none,
                   clean_data, called, raised>>

\* the program is started again, on the same directories
NextRun ==
    /\ pc = "exited"
    /\ run < MaxRuns
    /\ run' = run + 1
    /\ pc' = "config"
    /\ config' = [MAX_ERRORS_PERCENT |-> 0, REPORT_SIZE |-> REPORT_SIZE]
    /\ latest_log' = <<>>
    /\ handle' = "unopened"
    /\ closes' = 0
    /\ line' = <<>>
    /\ lines_count' = 0
    /\ lines_parsed' = 0
    /\ raw_data' = <<>>
    /\ returned_none' = FALSE
    /\ clean_data' = <<>>
    /\ called' = {}
    /\ raised' = "None"
    /\ exit_status' = <<>>
    /\ UNCHANGED <<log_dir, reports>>

Next ==
    \/ LoadConfig
    \/ LoadConfigFails
    \/ FindLatestLog
    \/ IsReportExist
    \/ LogReaderOpen
    \/ LogReaderOpenFails
    \/ ReadLine
    \/ ReadRaises
    \/ ReadEOF
    \/ ProcessLogReturn
    \/ ProcessRaw
    \/ CreateReport
    \/ CreateReportFails
    \/ TopLevel
    \/ NextRun

Spec == Init /\ [][Next]_vars

(***************************************************************************)
(* find_latest_log on every directory of at most MaxFiles files            *)
(***************************************************************************)
InitLocate ==
    /\ run = 1
    /\ log_dir \in Listings
    /\ reports = NoReports
    /\ RunInit

NextLocate ==
    \/ LoadConfig
    \/ FindLatestLog

SpecLocate == InitLocate /\ [][NextLocate]_vars

(***************************************************************************)
(* Properties                                                              *)
(***************************************************************************)
\* process_log has read its input to the end and returned or raised
ProcessLogReturned == handle = "closed" /\ pc # "gate"

\* errors_percent and max_errors_percent, both multiplied by lines_count
ErrorsTimesTotal == 100 * (lines_count - lines_parsed)
ThresholdTimesTotal == config.MAX_ERRORS_PERCENT * lines_count

\* C1: when process_log has consumed an input of at least one line, an
\* errors_percent strictly above MAX_ERRORS_PERCENT makes it return None and
\* neither process_raw nor create_report runs; an errors_percent equal to
\* MAX_ERRORS_PERCENT lets the run go on to the aggregation, whatever
\* parsed/total and the threshold are (no parsed line included).
C1_ThresholdGate ==
    (ProcessLogReturned /\ lines_count >= 1) =>
        /\ (ErrorsTimesTotal > ThresholdTimesTotal) =>
              /\ returned_none
              /\ "process_raw" \notin called
              /\ "create_report" \notin called
        /\ (ErrorsTimesTotal = ThresholdTimesTotal) =>
              /\ ~returned_none
              /\ (pc = "aggregate" \/ "process_raw" \in called)

C2_Step ==
    /\ \A n \in DOMAIN reports :
          n \in DOMAIN reports' /\ reports'[n] = reports[n]
    /\ (pc = "check" /\ ReportName(latest_log[1].date) \in DOMAIN reports) =>
          /\ pc' = "handler"
          /\ raised' = "SystemExit"
          /\ handle' = "unopened"
          /\ lines_count' = 0
          /\ "process_log" \notin called'
    /\ ("create_report" \in called' /\ "create_report" \notin called) =>
          ReportName(latest_log[1].date) \notin DOMAIN reports

\* C2: over any sequence of runs on the same directories, a report file that
\* exists is never written again or changed; a run that finds the report of
\* its latest log date leaves by sys.exit(0) without opening or reading the
\* log; and create_report is only called for a date that has no report yet.
C2_WrittenOnce == [][C2_Step]_vars

\* a second run stopped at the report the first run wrote
C2_Witness ==
    /\ run = 2
    /\ pc = "exited"
    /\ raised = "SystemExit"
    /\ latest_log # <<>>
    /\ "process_log" \notin called
    /\ ReportName(latest_log[1].date) \in DOMAIN reports
    /\ reports[ReportName(latest_log[1].date)] # <<>>

\* find_latest_log has run on log_dir
Located == "find_latest_log" \in called

RECURSIVE DigitsValue(_)
DigitsValue(d) ==
    IF d = <<>> THEN 0
    ELSE 10 * DigitsValue(SubSeq(d, 1, Len(d) - 1)) + d[Len(d)]

Matching == {i \in 1..Len(log_dir) : pattern(log_dir[i])}

\* C3: on any directory, in any listing order, find_latest_log returns an
\* entry whose date is maximal among the files that match the name pattern,
\* and None if and only if no file matches.  Stated here for the directories
\* in which every matching name carries a calendar date.
C3_LatestLog ==
    (Located /\ \A i \in Matching : strptime(log_dir[i].digits).ok) =>
        /\ raised \notin Exceptions
        /\ (latest_log = <<>>) <=> (Matching = {})
        /\ latest_log # <<>> =>
              \E i \in Matching :
                 /\ latest_log[1].name = log_dir[i]
                 /\ \A j \in Matching :
                       DigitsValue(log_dir[j].digits)
                          <= DigitsValue(log_dir[i].digits)

\* C4: a fault (an exception raised inside the pipeline) ends the process
\* with an exit status that differs from the status of the benign
\* terminations (sys.exit(0)) and of a successful report write.
C4_FaultsDistinguishable ==
    (pc = "exited" /\ raised \in Exceptions) =>
        exit_status[1] \notin {ExitStatus("SystemExit"), ExitStatus("None")}

\* create_report has written the report of this run
ReportWritten ==
    /\ "create_report" \in called
    /\ raised = "None"
    /\ pc \in {"handler", "exited"}

Pos(rows, r) == CHOOSE i \in 1..Len(rows) : rows[i] = r

\* r comes before q in the report order: larger time_sum first, and among
\* equal time_sum the row the Aggregator emitted first
Before(rows, r, q) ==
    \/ r.time_sum > q.time_sum
    \/ r.time_sum = q.time_sum /\ Pos(rows, r) < Pos(rows, q)

\* C5: the rows of the report are the first min(N, number of rows) rows of
\* the collection in the order "time_sum descending, ties in the order of the
\* Aggregator's output"; every row of the report is a row of the collection,
\* unaltered, and none occurs twice.
C5_ReportRows ==
    ReportWritten =>
        LET rows == clean_data
            rep == reports[ReportName(latest_log[1].date)]
            N == config.REPORT_SIZE
        IN  /\ Len(rep) = (IF N < Len(rows) THEN N ELSE Len(rows))
            /\ \A k \in 1..Len(rep) : rep[k] \in Range(rows)
            /\ \A k, l \in 1..Len(rep) : k < l => Before(rows, rep[k], rep[l])
            /\ \A r \in Range(rows) \ Range(rep) :
                  \A k \in 1..Len(rep) : Before(rows, rep[k], r)

\* a report cut to two of three rows, the last two of which tie and come
\* after a row with a smaller time_sum
C5_Witness ==
    /\ ReportWritten
    /\ config.REPORT_SIZE = 2
    /\ Len(clean_data) = 3
    /\ clean_data[1].time_sum < clean_data[2].time_sum
    /\ clean_data[2].time_sum = clean_data[3].time_sum

\* sum of a sequence of rationals <<num, den>>
RECURSIVE RatSum(_)
RatSum(q) ==
    IF q = <<>> THEN <<0, 1>>
    ELSE LET r == RatSum(Tail(q))
         IN  <<Head(q)[1] * r[2] + r[1] * Head(q)[2], Head(q)[2] * r[2]>>

\* C6: for non-empty RawSamples (all samples 0 included) process_raw returns
\* rows whose count_perc sum to 100, whose time_perc sum to 100, and with
\* time_sum = time_avg * count in every row.
C6_Aggregates ==
    "process_raw" \in called =>
        /\ raised # "ZeroDivisionError"
        /\ Len(clean_data) = Len(raw_data)
        /\ LET cp == RatSum([i \in 1..Len(clean_data) |-> clean_data[i].count_perc])
               tp == RatSum([i \in 1..Len(clean_data) |-> clean_data[i].time_perc])
           IN  /\ cp[2] # 0 /\ cp[1] = 100 * cp[2]
               /\ tp[2] # 0 /\ tp[1] = 100 * tp[2]
        /\ \A i \in 1..Len(clean_data) :
              clean_data[i].time_sum * clean_data[i].time_avg[2]
                 = clean_data[i].time_avg[1] * clean_data[i].count

HasPath(l) == \E i \in 1..Len(l) : l[i].k = "path"
HasDuration(l) == Len(l) > 0 /\ l[Len(l)].k = "num"
FirstPath(l) ==
    l[CHOOSE i \in 1..Len(l) :
         l[i].k = "path" /\ \A j \in 1..(i - 1) : l[j].k # "path"].url

SamplesOf(rd, u) ==
    IF \E i \in 1..Len(rd) : rd[i].url = u
    THEN rd[CHOOSE i \in 1..Len(rd) : rd[i].url = u].times
    ELSE <<>>

RECURSIVE CountSamples(_, _)
CountSamples(rd, us) ==
    IF us = {} THEN 0
    ELSE LET u == CHOOSE x \in us : TRUE
         IN  Len(SamplesOf(rd, u)) + CountSamples(rd, us \ {u})

C7_Counters ==
    /\ lines_parsed <= lines_count
    /\ \A i, j \in 1..Len(raw_data) : raw_data[i].url = raw_data[j].url => i = j
    /\ \A i \in 1..Len(raw_data) : raw_data[i].url \in Urls
    /\ CountSamples(raw_data, Urls) = lines_parsed

C7_Step ==
    /\ (lines_count' # lines_count /\ run' = run) => (pc = "read" /\ pc' = "read")
    /\ (pc = "read" /\ pc' = "read") =>
          /\ lines_count' = lines_count + 1
          /\ IF HasPath(line') /\ HasDuration(line')
             THEN /\ lines_parsed' = lines_parsed + 1
                  /\ \A u \in Urls :
                        SamplesOf(raw_data', u) =
                           IF u = FirstPath(line')
                           THEN Append(SamplesOf(raw_data, u),
                                       line'[Len(line')].num)
                           ELSE SamplesOf(raw_data, u)
             ELSE /\ lines_parsed' = lines_parsed
                  /\ raw_data' = raw_data

\* C7: every line read adds one to lines_count; a line adds one sample (its
\* duration, at the end of the samples of its endpoint) and one to
\* lines_parsed exactly when it has both a path and a trailing duration, and
\* otherwise leaves lines_parsed and raw_data unchanged; at every point
\* lines_parsed <= lines_count and the samples of all endpoints number
\* lines_parsed.
C7_LineCounting == []C7_Counters /\ [][C7_Step]_vars

\* two samples of one endpoint followed by a line without duration
C7_Witness ==
    /\ pc = "read"
    /\ lines_count = 3
    /\ lines_parsed = 2
    /\ HasPath(line) /\ ~HasDuration(line)
    /\ Len(SamplesOf(raw_data, "/a")) = 2

\* C8: on an input of zero lines process_log does not divide by the total
\* (no ZeroDivisionError), and no aggregation or report write follows.
C8_EmptyInput ==
    (ProcessLogReturned /\ lines_count = 0) =>
        /\ raised # "ZeroDivisionError"
        /\ "process_raw" \notin called
        /\ "create_report" \notin called

\* C9: when the run is over, a file object log_reader opened has been closed,
\* exactly once.
C9_HandleReleased ==
    (pc = "exited" /\ handle # "unopened") =>
        (handle = "closed" /\ closes = 1)

WellFormed(file) == pattern(file) => strptime(file.digits).ok

\* C10: find_latest_log raises for no file name, and its result is the
\* result on the directory without the files whose date segment is absent
\* or malformed.
C10_MalformedSkipped ==
    Located =>
        /\ raised # "ValueError"
        /\ latest_log = find_latest_log(SelectSeq(log_dir, WellFormed)).found
====
